---- MODULE Spec2Model ----
(***************************************************************************)
(* A model of the pneumonia-detector client (src/app.py) and of the model  *)
(* server handler (src/inference.py).                                      *)
(*                                                                         *)
(* Four independent parts of the program are modelled, each with its own   *)
(* specification over its own variables:                                   *)
(*   SpecMap     map_probability                                           *)
(*   SpecReport  build_pdf_report (word wrap, then drawing and pagination) *)
(*   SpecTensor  preprocess_image, _preprocess and input_fn                *)
(*   SpecMain    main, invoke_model and get_sagemaker_runtime, over        *)
(*               several script runs of one process                        *)
(* Strings are sequences of characters; a character is a natural number,   *)
(* 0 being the space.  Lengths on the page are integers in units of        *)
(* 1/10000 point.  Probabilities are rationals prob / ProbScale.           *)
(***************************************************************************)
EXTENDS Integers, Sequences, FiniteSets, TLC

VARIABLES
    \* map_probability
    prob, label,
    \* build_pdf_report
    notes, rpc, words, wi, line, wrapped, li, y, page, drawn,
    \* preprocess_image, _preprocess, input_fn
    image, ctype, tensor, tpc, raised, preCalls,
    \* the process: configuration, cached client, history of the calls
    secrets, ENDPOINT_NAME, AWS_REGION, cache, constructed, used, runs,
    pastRemoteFail,
    \* one run of main
    mpc, mode, file, clicked, pil, shown, crashed, invokeCalls, failure,
    mprob, diagnosis

mapVars == <<prob, label>>
reportVars == <<notes, rpc, words, wi, line, wrapped, li, y, page, drawn>>
tensorVars == <<image, ctype, tensor, tpc, raised, preCalls>>
processVars ==
    <<secrets, ENDPOINT_NAME, AWS_REGION, cache, constructed, used, runs,
      pastRemoteFail>>
runVars ==
    <<mpc, mode, file, clicked, pil, shown, crashed, invokeCalls, failure,
      mprob, diagnosis>>
mainVars == <<processVars, runVars>>
vars == <<mapVars, reportVars, tensorVars, mainVars>>

(***************************************************************************)
(* Bounds of the model.                                                    *)
(***************************************************************************)
\* probabilities are the multiples of 1/ProbScale in [0, 1]
ProbScale == 1000
\* notes of up to MaxWords words of every length in WordLens
MaxWords == 3
\* notes of up to MaxRepeat equal words (long enough to fill a page)
MaxRepeat == 38
\* script runs of one process
MaxRuns == 3

(***************************************************************************)
(* map_probability                                                         *)
(***************************************************************************)
\* prob >= 0.75 and prob >= 0.5 on the rational p / ProbScale
GE075(p) == 4 * p >= 3 * ProbScale
GE05(p) == 2 * p >= ProbScale

map_probability_gt(p) ==
    IF 4 * p > 3 * ProbScale THEN "Pneumonia Detected"
    ELSE IF 2 * p > ProbScale THEN "Possible Pneumonia (Moderate)"
    ELSE "Normal"

map_probability(p) ==
    IF GE075(p) THEN "Pneumonia Detected"
    ELSE IF GE05(p) THEN "Possible Pneumonia (Moderate)"
    ELSE "Normal"

MapIdle ==
    /\ prob = 0
    /\ label = "unset"

MapInit ==
    /\ prob \in 0..ProbScale
    /\ label = "unset"

\* diagnosis = map_probability(prob)
MapCall ==
    /\ label = "unset"
    /\ label' = map_probability(prob)
    /\ UNCHANGED prob
    /\ UNCHANGED <<reportVars, tensorVars, mainVars>>

(***************************************************************************)
(* Strings                                                                 *)
(***************************************************************************)
SP == 0

\* str.split() without arguments: the maximal runs of non-space characters
WordStarts(s) == {i \in 1..Len(s) : s[i] # SP /\ (i = 1 \/ s[i - 1] = SP)}
WordEnds(s) == {i \in 1..Len(s) : s[i] # SP /\ (i = Len(s) \/ s[i + 1] = SP)}

split(s) ==
    LET starts == WordStarts(s)
        ends == WordEnds(s)
        kth(k) == CHOOSE i \in starts : Cardinality({j \in starts : j < i}) = k - 1
        endOf(i) == CHOOSE e \in ends : e >= i /\ \A f \in ends : f >= i => e <= f
    IN  [k \in 1..Cardinality(starts) |-> SubSeq(s, kth(k), endOf(kth(k)))]

\* the k-th word of a note: n copies of the letter k
MakeWord(k, n) == [i \in 1..n |-> k]
Spaces(n) == [i \in 1..n |-> SP]

RECURSIVE JoinWords(_, _, _)
JoinWords(lens, k, sep) ==
    IF k > Len(lens) THEN <<>>
    ELSE (IF k > 1 THEN Spaces(sep) ELSE <<>>) \o MakeWord(k, lens[k])
         \o JoinWords(lens, k + 1, sep)

\* n words of L characters each, separated by one space
UniformNotes(n, L) ==
    [i \in 1..(IF n = 0 THEN 0 ELSE n * (L + 1) - 1) |->
        IF i % (L + 1) = 0 THEN SP ELSE ((i - 1) \div (L + 1)) + 1]

WordLens == {1, 44, 45, 46, 89, 90, 91}
RepeatLens == {46, 90}

LenSeqs == UNION {[1..n -> WordLens] : n \in 0..MaxWords}

NotesInputs ==
    {JoinWords(ls, 1, 1) : ls \in LenSeqs}
    \cup {Spaces(1) \o JoinWords(ls, 1, 2) \o Spaces(2) : ls \in LenSeqs}
    \cup {UniformNotes(n, L) : n \in 0..MaxRepeat, L \in RepeatLens}

(***************************************************************************)
(* build_pdf_report                                                        *)
(***************************************************************************)
\* reportlab's A4 height, 841.8897637795277 points
Height == 8418898
max_chars == 90
PT(n) == n * 10000

ReportIdle ==
    /\ notes = <<>>
    /\ rpc = "idle"
    /\ words = <<>>
    /\ wi = 0
    /\ line = <<>>
    /\ wrapped = <<>>
    /\ li = 0
    /\ y = 0
    /\ page = 1
    /\ drawn = <<>>

ReportInit ==
    /\ notes \in NotesInputs
    /\ rpc = "header"
    /\ words = <<>>
    /\ wi = 0
    /\ line = <<>>
    /\ wrapped = <<>>
    /\ li = 0
    /\ y = Height - PT(50)
    /\ page = 1
    /\ drawn = <<>>

\* title, timestamp, patient block, assessment block, the "Notes" heading;
\* then the words of the notes are taken
ReportHeader ==
    /\ rpc = "header"
    /\ y' = y - PT(30) - PT(40) - PT(18) - PT(18) - PT(30) - PT(18) - PT(18)
              - PT(30) - PT(18)
    /\ words' = split(notes)
    /\ rpc' = "wrap"
    /\ UNCHANGED <<notes, wi, line, wrapped, li, page, drawn>>
    /\ UNCHANGED <<mapVars, tensorVars, mainVars>>

\* the test of the wrapping loop, the separating space forgotten
Overflows_nosep(ln, word) == Len(ln) + Len(word) > max_chars

\* the test of the wrapping loop
Overflows(ln, word) == Len(ln) + Len(word) + 1 > max_chars

\* one iteration of "for word in notes.split()"
WrapWord ==
    /\ rpc = "wrap"
    /\ wi < Len(words)
    /\ LET word == words[wi + 1]
       IN  IF Overflows(line, word)
           THEN /\ wrapped' = Append(wrapped, line)
                /\ line' = word
           ELSE /\ line' = line \o (IF line # <<>> THEN <<SP>> ELSE <<>>) \o word
                /\ UNCHANGED wrapped
    /\ wi' = wi + 1
    /\ UNCHANGED <<notes, rpc, words, li, y, page, drawn>>
    /\ UNCHANGED <<mapVars, tensorVars, mainVars>>

\* "if line: wrapped.append(line)" after the loop
WrapEnd ==
    /\ rpc = "wrap"
    /\ wi = Len(words)
    /\ wrapped' = IF line # <<>> THEN Append(wrapped, line) ELSE wrapped
    /\ rpc' = "draw"
    /\ UNCHANGED <<notes, words, wi, line, li, y, page, drawn>>
    /\ UNCHANGED <<mapVars, tensorVars, mainVars>>

\* the test after a line is drawn
BelowMargin(yy) == yy < PT(60)

\* one iteration of "for ln in wrapped"
DrawLine ==
    /\ rpc = "draw"
    /\ li < Len(wrapped)
    /\ drawn' = Append(drawn, [page |-> page, y |-> y, ln |-> li + 1])
    /\ li' = li + 1
    /\ IF BelowMargin(y - PT(14))
       THEN /\ page' = page + 1
            /\ y' = Height - PT(60)
       ELSE /\ y' = y - PT(14)
            /\ UNCHANGED page
    /\ UNCHANGED <<notes, rpc, words, wi, line, wrapped>>
    /\ UNCHANGED <<mapVars, tensorVars, mainVars>>

\* the final showPage and save
ReportSave ==
    /\ rpc = "draw"
    /\ li = Len(wrapped)
    /\ rpc' = "done"
    /\ UNCHANGED <<notes, words, wi, line, wrapped, li, y, page, drawn>>
    /\ UNCHANGED <<mapVars, tensorVars, mainVars>>

(***************************************************************************)
(* preprocess_image (app.py), _preprocess and input_fn (inference.py)      *)
(*                                                                         *)
(* An image is its size (width, height), its mode and the range lo..hi of  *)
(* its 8-bit channel values.  An array is its shape and the range of its   *)
(* values, each value a rational <<numerator, denominator>>.               *)
(***************************************************************************)
IMG_SIZE == <<224, 224>>

Modes == {"L", "RGBA", "P", "RGB"}
Dims == {1, 224, 640}
Levels == {0, 128, 255}
\* how far a resampling filter may overshoot the range of its input
Overshoots == {0, 20}

Images ==
    {i \in [size : Dims \X Dims, mode : Modes, lo : Levels, hi : Levels] :
        i.lo <= i.hi}

\* bytes that are no image
Corrupt == [size |-> <<0, 0>>, mode |-> "corrupt", lo |-> 0, hi |-> 0]
\* no array
NoTensor == [shape |-> <<>>, lo |-> <<0, 1>>, hi |-> <<0, 1>>]

\* the channel axis of numpy.array(image): absent for single-band modes
Bands(m) ==
    CASE m = "RGB" -> <<3>>
      [] m = "RGBA" -> <<4>>
      [] OTHER -> <<>>

Max(a, b) == IF a >= b THEN a ELSE b
Min(a, b) == IF a <= b THEN a ELSE b

\* Image.convert("RGB"): three 8-bit channels
convert(img, m) == [img EXCEPT !.mode = m]

\* Image.resize(size): resampled, the result clipped to 8 bits
resize(img, size, over) ==
    [img EXCEPT !.size = size,
                !.lo = Max(0, img.lo - over),
                !.hi = Min(255, img.hi + over)]

\* numpy.array(image): shape (height, width[, channels])
np_array(img) ==
    [shape |-> <<img.size[2], img.size[1]>> \o Bands(img.mode),
     lo |-> <<img.lo, 1>>, hi |-> <<img.hi, 1>>]

\* array / d
divide(arr, d) ==
    [arr EXCEPT !.lo = <<arr.lo[1], arr.lo[2] * d>>,
                !.hi = <<arr.hi[1], arr.hi[2] * d>>]

\* numpy.expand_dims(array, axis=0)
expand_dims(arr) == [arr EXCEPT !.shape = <<1>> \o arr.shape]

\* preprocess_image without the conversion to RGB
preprocess_image_noconvert(img, over) ==
    expand_dims(divide(np_array(resize(img, IMG_SIZE, over)), 255))

\* app.py: the tensor that preprocess_image serialises as nested JSON arrays
preprocess_image(img, over) ==
    expand_dims(divide(np_array(resize(convert(img, "RGB"), IMG_SIZE, over)), 255))

\* inference.py: the tensor of the handler
_preprocess(img, over) ==
    expand_dims(divide(np_array(resize(convert(img, "RGB"), IMG_SIZE, over)), 255))

\* str.startswith
startswith(s, p) == Len(s) >= Len(p) /\ SubSeq(s, 1, Len(p)) = p

\* the test of input_fn with the slash of the prefix forgotten
accepted_noslash(ct) == startswith(ct, "image") \/ ct = "application/x-image"

\* the test of input_fn
accepted(ct) == startswith(ct, "image/") \/ ct = "application/x-image"

ContentTypes ==
    {"image/png", "image/jpeg", "image/", "image", "imagex/png", "IMAGE/png",
     "application/x-image", "application/x-images", "application/json", "",
     "text/image/png", " image/png"}

TensorIdle ==
    /\ image = Corrupt
    /\ ctype = ""
    /\ tensor = NoTensor
    /\ tpc = "idle"
    /\ raised = "none"
    /\ preCalls = 0

TensorInit ==
    /\ image \in Images \cup {Corrupt}
    /\ ctype \in ContentTypes
    /\ tensor = NoTensor
    /\ tpc = "start"
    /\ raised = "none"
    /\ preCalls = 0

\* the client preprocesses an opened image
AppPreprocess ==
    /\ tpc = "start"
    /\ image # Corrupt
    /\ \E over \in Overshoots : tensor' = preprocess_image(image, over)
    /\ tpc' = "app"
    /\ UNCHANGED <<image, ctype, raised, preCalls>>
    /\ UNCHANGED <<mapVars, reportVars, mainVars>>

\* the handler receives the request body with its declared content type
HandlerInput ==
    /\ tpc = "start"
    /\ tpc' = "handler"
    /\ IF accepted(ctype)
       THEN /\ preCalls' = preCalls + 1
            /\ IF image = Corrupt
               THEN /\ raised' = "UnidentifiedImageError"
                    /\ UNCHANGED tensor
               ELSE /\ \E over \in Overshoots : tensor' = _preprocess(image, over)
                    /\ UNCHANGED raised
       ELSE /\ raised' = "ValueError"
            /\ UNCHANGED <<tensor, preCalls>>
    /\ UNCHANGED <<image, ctype>>
    /\ UNCHANGED <<mapVars, reportVars, mainVars>>

(***************************************************************************)
(* main, invoke_model and get_sagemaker_runtime (app.py)                   *)
(*                                                                         *)
(* The process lives through several runs of the script.  The secrets, the *)
(* resource cache of get_sagemaker_runtime and the history of the endpoint *)
(* calls belong to the process; everything else belongs to one run.        *)
(***************************************************************************)
Unset == "unset"

\* st.secrets.get(key, default)
secrets_get(sec, key, default) == IF sec[key] = Unset THEN default ELSE sec[key]

\* the secrets the process may be started with; the "aws" table is absent,
\* complete, without a region, or without its access key
SecretsInputs ==
    [ENDPOINT_NAME : {Unset, "custom-endpoint"},
     AWS_REGION : {Unset, "us-east-1"},
     aws : {Unset, "full", "noregion", "nokey"}]

NoClient == [id |-> 0, region |-> ""]

\* boto3.client("sagemaker-runtime", region_name=...): the body of
\* get_sagemaker_runtime; NoClient stands for the KeyError of a missing key
new_client(sec, region, n) ==
    IF sec.aws = Unset THEN [id |-> n, region |-> region]
    ELSE IF sec.aws = "nokey" THEN NoClient
    ELSE [id |-> n, region |-> IF sec.aws = "full" THEN "eu-west-1" ELSE region]

\* get_sagemaker_runtime without its cache
uncached_client(cached, fresh) == fresh

\* @st.cache_resource: the cached client when there is one
cached_client(cached, fresh) == IF cached # NoClient THEN cached ELSE fresh

UploadFiles == {"none", "good", "unidentified", "truncated", "badpre"}
DemoFiles == {"good", "missing", "unidentified", "truncated", "badpre"}
RemoteOutcomes == {"ok", "unreachable", "status", "malformed"}
MainProbs == {0, ProbScale \div 2, (3 * ProbScale) \div 4, ProbScale}

MainIdle ==
    /\ secrets = [ENDPOINT_NAME |-> Unset, AWS_REGION |-> Unset, aws |-> Unset]
    /\ ENDPOINT_NAME = Unset
    /\ AWS_REGION = Unset
    /\ cache = NoClient
    /\ constructed = 0
    /\ used = <<>>
    /\ runs = 0
    /\ pastRemoteFail = FALSE
    /\ mpc = "off"
    /\ mode = "upload"
    /\ file = "none"
    /\ clicked = FALSE
    /\ pil = "None"
    /\ shown = {}
    /\ crashed = FALSE
    /\ invokeCalls = 0
    /\ failure = "none"
    /\ mprob = 0
    /\ diagnosis = "unset"

MainInit ==
    /\ secrets \in SecretsInputs
    /\ ENDPOINT_NAME = Unset
    /\ AWS_REGION = Unset
    /\ cache = NoClient
    /\ constructed = 0
    /\ used = <<>>
    /\ runs = 0
    /\ pastRemoteFail = FALSE
    /\ mpc = "idle"
    /\ mode = "upload"
    /\ file = "none"
    /\ clicked = FALSE
    /\ pil = "None"
    /\ shown = {}
    /\ crashed = FALSE
    /\ invokeCalls = 0
    /\ failure = "none"
    /\ mprob = 0
    /\ diagnosis = "unset"

\* an exception leaves main uncaught: the run ends there
Escapes(kind) ==
    /\ crashed' = TRUE
    /\ failure' = kind
    /\ mpc' = "idle"

\* the handler of the run re-raising instead of reporting
RunExcept_reraise(kind) ==
    /\ crashed' = TRUE
    /\ failure' = kind
    /\ mpc' = "idle"
    /\ UNCHANGED shown

\* "except Exception as e: st.error(...)"; main then returns
RunExcept(kind) ==
    /\ shown' = shown \cup {"error"}
    /\ failure' = kind
    /\ mpc' = "idle"
    /\ UNCHANGED crashed

\* an interaction reruns the script: the configuration is read, the page is
\* cleared, the widgets hold what the user chose
MainStart ==
    /\ mpc = "idle"
    /\ runs < MaxRuns
    /\ runs' = runs + 1
    /\ pastRemoteFail' = (pastRemoteFail \/ failure = "remote")
    /\ ENDPOINT_NAME' = secrets_get(secrets, "ENDPOINT_NAME", "pneumonia-detector-endpoint-v7")
    /\ AWS_REGION' = secrets_get(secrets, "AWS_REGION", "ap-south-1")
    /\ \E m \in {"upload", "demo"} :
          /\ mode' = m
          /\ file' \in (IF m = "upload" THEN UploadFiles ELSE DemoFiles)
    /\ clicked' \in BOOLEAN
    /\ pil' = "None"
    /\ shown' = {}
    /\ crashed' = FALSE
    /\ invokeCalls' = 0
    /\ failure' = "none"
    /\ mpc' = "input"
    /\ UNCHANGED <<secrets, cache, constructed, used, mprob, diagnosis>>
    /\ UNCHANGED <<mapVars, reportVars, tensorVars>>

\* mode "Upload image": Image.open and st.image, outside any try
LoadUpload ==
    /\ mpc = "input"
    /\ mode = "upload"
    /\ CASE file = "none" ->
              /\ mpc' = "button"
              /\ UNCHANGED <<pil, shown, crashed, failure>>
         [] file \in {"unidentified", "truncated"} ->
              /\ Escapes("decode")
              /\ pil' = IF file = "truncated" THEN "opened" ELSE pil
              /\ UNCHANGED shown
         [] OTHER ->
              /\ pil' = "opened"
              /\ shown' = shown \cup {"image"}
              /\ mpc' = "button"
              /\ UNCHANGED <<crashed, failure>>
    /\ UNCHANGED <<processVars, mode, file, clicked, invokeCalls, mprob, diagnosis>>
    /\ UNCHANGED <<mapVars, reportVars, tensorVars>>

\* mode "Use demo sample": only FileNotFoundError is caught
LoadDemo ==
    /\ mpc = "input"
    /\ mode = "demo"
    /\ CASE file = "missing" ->
              /\ shown' = shown \cup {"error"}
              /\ failure' = "missing"
              /\ pil' = "None"
              /\ mpc' = "button"
              /\ UNCHANGED crashed
         [] file \in {"unidentified", "truncated"} ->
              /\ Escapes("decode")
              /\ pil' = IF file = "truncated" THEN "opened" ELSE pil
              /\ UNCHANGED shown
         [] OTHER ->
              /\ pil' = "opened"
              /\ shown' = shown \cup {"image", "info"}
              /\ mpc' = "button"
              /\ UNCHANGED <<crashed, failure>>
    /\ UNCHANGED <<processVars, mode, file, clicked, invokeCalls, mprob, diagnosis>>
    /\ UNCHANGED <<mapVars, reportVars, tensorVars>>

\* "if image is not None and st.button(...)"
Button ==
    /\ mpc = "button"
    /\ mpc' = IF pil # "None" /\ clicked THEN "preprocess" ELSE "idle"
    /\ UNCHANGED <<processVars, mode, file, clicked, pil, shown, crashed,
                   invokeCalls, failure, mprob, diagnosis>>
    /\ UNCHANGED <<mapVars, reportVars, tensorVars>>

\* payload = preprocess_image(image)
Preprocess ==
    /\ mpc = "preprocess"
    /\ IF file = "badpre"
       THEN RunExcept("decode")
       ELSE /\ mpc' = "client"
            /\ UNCHANGED <<shown, crashed, failure>>
    /\ UNCHANGED <<processVars, mode, file, clicked, pil, invokeCalls, mprob,
                   diagnosis>>
    /\ UNCHANGED <<mapVars, reportVars, tensorVars>>

\* invoke_model: client = get_sagemaker_runtime()
GetClient ==
    /\ mpc = "client"
    /\ LET client == cached_client(cache, new_client(secrets, AWS_REGION, constructed + 1))
       IN  IF client = NoClient
           THEN /\ RunExcept("client")
                /\ UNCHANGED <<cache, constructed>>
           ELSE /\ cache' = client
                /\ constructed' = IF client = cache THEN constructed ELSE constructed + 1
                /\ mpc' = "invoke"
                /\ UNCHANGED <<shown, crashed, failure>>
    /\ UNCHANGED <<secrets, ENDPOINT_NAME, AWS_REGION, used, runs, pastRemoteFail>>
    /\ UNCHANGED <<mode, file, clicked, pil, invokeCalls, mprob, diagnosis>>
    /\ UNCHANGED <<mapVars, reportVars, tensorVars>>

\* invoke_model: client.invoke_endpoint and the reading of predictions[0][0]
Invoke ==
    /\ mpc = "invoke"
    /\ invokeCalls' = invokeCalls + 1
    /\ used' = Append(used, [client |-> cache.id, endpoint |-> ENDPOINT_NAME,
                             region |-> cache.region])
    /\ \E outcome \in RemoteOutcomes :
          IF outcome = "ok"
          THEN /\ mprob' \in MainProbs
               /\ mpc' = "result"
               /\ UNCHANGED <<shown, crashed, failure>>
          ELSE /\ RunExcept("remote")
               /\ UNCHANGED mprob
    /\ UNCHANGED <<secrets, ENDPOINT_NAME, AWS_REGION, cache, constructed, runs,
                   pastRemoteFail>>
    /\ UNCHANGED <<mode, file, clicked, pil, diagnosis>>
    /\ UNCHANGED <<mapVars, reportVars, tensorVars>>

\* diagnosis = map_probability(prob); the result is written to the page
ShowResult ==
    /\ mpc = "result"
    /\ diagnosis' = map_probability(mprob)
    /\ shown' = shown \cup {"diagnosis", "probability"}
    /\ mpc' = "report"
    /\ UNCHANGED <<processVars, mode, file, clicked, pil, crashed, invokeCalls,
                   failure, mprob>>
    /\ UNCHANGED <<mapVars, reportVars, tensorVars>>

\* pdf_bytes = build_pdf_report(...): returns, or raises
BuildReport ==
    /\ mpc = "report"
    /\ \E ok \in BOOLEAN :
          IF ok
          THEN /\ mpc' = "download"
               /\ UNCHANGED <<shown, crashed, failure>>
          ELSE RunExcept("report")
    /\ UNCHANGED <<processVars, mode, file, clicked, pil, invokeCalls, mprob,
                   diagnosis>>
    /\ UNCHANGED <<mapVars, reportVars, tensorVars>>

\* st.download_button(...)
OfferDownload ==
    /\ mpc = "download"
    /\ shown' = shown \cup {"download"}
    /\ mpc' = "idle"
    /\ UNCHANGED <<processVars, mode, file, clicked, pil, crashed, invokeCalls,
                   failure, mprob, diagnosis>>
    /\ UNCHANGED <<mapVars, reportVars, tensorVars>>

(***************************************************************************)
(* Properties of map_probability                                           *)
(***************************************************************************)
Labels == {"Pneumonia Detected", "Possible Pneumonia (Moderate)", "Normal"}

\* the label the thresholds 0.75 and 0.5 give to the probability n / d
Expected(n, d) ==
    IF 100 * n >= 75 * d THEN "Pneumonia Detected"
    ELSE IF 10 * n >= 5 * d THEN "Possible Pneumonia (Moderate)"
    ELSE "Normal"

\* the six probabilities (in thousandths) the specification lists
ListedPoints ==
    {<<750, "Pneumonia Detected">>, <<1000, "Pneumonia Detected">>,
     <<749, "Possible Pneumonia (Moderate)">>, <<500, "Possible Pneumonia (Moderate)">>,
     <<499, "Normal">>, <<0, "Normal">>}

\* C1: for every probability in [0, 1] map_probability returns exactly one of
\* the three labels: "Pneumonia Detected" iff p >= 0.75, "Possible Pneumonia
\* (Moderate)" iff 0.5 <= p < 0.75, "Normal" iff p < 0.5; and the listed
\* probabilities 0.75, 1.0, 0.749, 0.5, 0.499, 0.0 get the listed labels.
C1_MapProbability ==
    label # "unset" =>
        /\ label \in Labels
        /\ label = Expected(prob, ProbScale)
        /\ \A pt \in ListedPoints :
               1000 * prob = pt[1] * ProbScale => label = pt[2]

\* the boundary 0.75 has been mapped
C1_Witness ==
    /\ 100 * prob = 75 * ProbScale
    /\ label = "Pneumonia Detected"

(***************************************************************************)
(* Properties of build_pdf_report                                          *)
(***************************************************************************)
\* the notes hold no word longer than 90 characters (words is split(notes)
\* from the first step on)
NoLongWord == \A k \in 1..Len(words) : Len(words[k]) <= 90

Range(s) == {s[i] : i \in 1..Len(s)}

RECURSIVE WordsOfLines(_, _)
WordsOfLines(lines, i) ==
    IF i > Len(lines) THEN <<>>
    ELSE split(lines[i]) \o WordsOfLines(lines, i + 1)

\* C2: for notes without a word longer than 90 characters, every line in
\* wrapped has at most 90 characters, at every step of the wrapping loop, at
\* its end and while the lines are drawn.
C2_LineBudget ==
    NoLongWord => \A i \in 1..Len(wrapped) : Len(wrapped[i]) <= 90

\* a finished wrap of several lines, one of them two or more words filling
\* the budget exactly
C2_Witness ==
    /\ rpc = "done"
    /\ NoLongWord
    /\ Len(wrapped) > 1
    /\ \E i \in 1..Len(wrapped) : Len(wrapped[i]) = 90 /\ SP \in Range(wrapped[i])

\* C3: while the wrapped lines are drawn, a page break (showPage, the cursor
\* reset to height - 60) happens if and only if there is a further wrapped
\* line to draw and drawing it at the cursor would place it below 60.
C3_PageBreakIff ==
    [][(rpc = "draw" /\ li' = li + 1) =>
          /\ (page' = page + 1) <=>
                (li + 1 < Len(wrapped) /\ y - PT(14) < PT(60))
          /\ (page' = page + 1) => y' = Height - PT(60)
          /\ (page' # page + 1) => (page' = page /\ y' = y - PT(14))]_reportVars

\* C10: for notes without a word longer than 90 characters, a word starts a
\* new line only when the current line holds at least one word and appending
\* the word after a space would exceed 90 characters; no emitted line is
\* empty; and the emitted lines hold exactly the words of the notes, in
\* order, each once and unsplit.
C10_GreedyWrap ==
    [][(rpc = "wrap" /\ NoLongWord) =>
          /\ (wi' = wi + 1 /\ Len(wrapped') > Len(wrapped)) =>
                (line # <<>> /\ Len(line) + 1 + Len(words[wi + 1]) > 90)
          /\ \A i \in 1..Len(wrapped') : wrapped'[i] # <<>>
          /\ rpc' = "draw" => WordsOfLines(wrapped', 1) = split(notes)]_reportVars

(***************************************************************************)
(* Properties of the preprocessing and of input_fn                         *)
(***************************************************************************)
\* a content type the handler is documented to recognise: "image/" followed
\* by anything, or the generic image type
Recognised(ct) ==
    \/ ct = "application/x-image"
    \/ \E n \in 0..Len(ct) : ct = "image/" \o SubSeq(ct, Len(ct) - n + 1, Len(ct))

\* C7: input_fn accepts a request (hands it to _preprocess) if and only if
\* its content type starts with "image/" or is "application/x-image"; for
\* every other content type it raises ValueError, _preprocess is not called
\* and no tensor is returned.
C7_InputFn ==
    tpc = "handler" =>
        /\ (preCalls = 1) <=> Recognised(ctype)
        /\ ~Recognised(ctype) =>
               (raised = "ValueError" /\ preCalls = 0 /\ tensor = NoTensor)
        /\ Recognised(ctype) => raised # "ValueError"

\* a request with an unrecognised content type that shares the letters of
\* the prefix has been rejected
C7_Witness ==
    /\ tpc = "handler"
    /\ ctype = "imagex/png"
    /\ raised = "ValueError"

LE(a, b) == a[1] * b[2] <= b[1] * a[2]

\* C9: for every image, whatever its size and mode, the tensor of
\* preprocess_image and of _preprocess has shape (1, 224, 224, 3) and every
\* value in it is within [0.0, 1.0].
C9_TensorShape ==
    tensor # NoTensor =>
        /\ tensor.shape = <<1, 224, 224, 3>>
        /\ LE(<<0, 1>>, tensor.lo)
        /\ LE(tensor.lo, tensor.hi)
        /\ LE(tensor.hi, <<1, 1>>)

\* a greyscale image that is not square and not of the target size has been
\* preprocessed by the client
C9_Witness ==
    /\ tpc = "app"
    /\ image # Corrupt
    /\ image.mode = "L"
    /\ image.size = <<640, 1>>
    /\ tensor # NoTensor

(***************************************************************************)
(* Properties of main                                                      *)
(***************************************************************************)
Results == {"diagnosis", "probability", "download"}

\* C4: a run produces no partial results: when it has ended, the diagnosis,
\* the probability and the report are all on the page or none of them is,
\* whichever step failed.
C4_NoPartialResults ==
    mpc = "idle" => (Results \subseteq shown \/ Results \cap shown = {})

\* C5: when the remote call of a run fails, the failure is caught in the
\* run: an error message is shown, no report is offered, invoke_endpoint has
\* been called once and not again, no exception leaves main, and the session
\* takes a further run.
C5_RemoteFailure ==
    failure = "remote" =>
        /\ mpc = "idle"
        /\ "error" \in shown
        /\ "download" \notin shown
        /\ invokeCalls = 1
        /\ ~crashed
        /\ runs < MaxRuns => ENABLED MainStart

\* a run offers its report after the remote call of an earlier run failed
C5_Witness ==
    /\ pastRemoteFail
    /\ "download" \in shown

\* C6: an image decode failure is always shown as an error message by the
\* application and aborts the run, whichever step raises it: no exception
\* leaves main, invoke_model is not called and no report is produced.
C6_DecodeFailure ==
    failure = "decode" =>
        /\ "error" \in shown
        /\ ~crashed
        /\ invokeCalls = 0
        /\ "download" \notin shown

\* C8: the client is constructed at most once in the process: every
\* invoke_model call uses the client the first one constructed, and the
\* endpoint name and the region of the calls never change.
C8_ClientOnce ==
    /\ constructed <= 1
    /\ cache # NoClient => (constructed = 1 /\ cache.id = 1)
    /\ \A i \in 1..Len(used) : used[i] = used[1] /\ used[i].client = 1

\* three runs have each called the endpoint
C8_Witness ==
    /\ Len(used) = 3
    /\ runs = 3

(***************************************************************************)
(* Specifications                                                          *)
(***************************************************************************)
InitMap == MapInit /\ ReportIdle /\ TensorIdle /\ MainIdle
NextMap == MapCall
SpecMap == InitMap /\ [][NextMap]_vars

InitReport == MapIdle /\ ReportInit /\ TensorIdle /\ MainIdle
NextReport == ReportHeader \/ WrapWord \/ WrapEnd \/ DrawLine \/ ReportSave
SpecReport == InitReport /\ [][NextReport]_vars

InitTensor == MapIdle /\ ReportIdle /\ TensorInit /\ MainIdle
NextTensor == AppPreprocess \/ HandlerInput
SpecTensor == InitTensor /\ [][NextTensor]_vars

InitMain == MapIdle /\ ReportIdle /\ TensorIdle /\ MainInit
NextMain ==
    \/ MainStart \/ LoadUpload \/ LoadDemo \/ Button \/ Preprocess
    \/ GetClient \/ Invoke \/ ShowResult \/ BuildReport \/ OfferDownload
SpecMain == InitMain /\ [][NextMain]_vars

====
